---- MODULE Spec2Model ----
(***************************************************************************)
(* A model of gaia-project-scraper.py: the change parser (StateChange),    *)
(* the row classifier (LogItem), the log builder (GameLog), the statistics *)
(* accumulator (VPStats, ResourceStats, FactionStats, Stats) and the order *)
(* of the report (Stats.breakdown).                                        *)
(*                                                                         *)
(* A Python str is the sequence of its Unicode code points, so that strip, *)
(* replace, split, endswith, `in' and re.findall are computed, not assumed.*)
(* None is the record [none |-> TRUE]; an optional str or list is None or  *)
(* Some(v); an object whose attribute was never assigned is a record       *)
(* without that field; a raised exception is the record [exc |-> name,     *)
(* printed |-> the lines written to stdout before it was raised].          *)
(***************************************************************************)
EXTENDS FiniteSets, Integers, Sequences, TLC

VARIABLES
    source,         \* what main() is given: no argument, a time-out, a page
    html,           \* the <tr> rows of the page, in source order (latest first)
    log_rows,       \* GameLog.parse_from_HTML: the rows after log_rows.reverse()
    items,          \* GameLog.parse_from_HTML: the LogItems built so far
    log,            \* the GameLog returned, or None
    faction_stats,  \* Stats.faction_stats, or None before Stats.__init__
    pos,            \* Stats.__init__: <<item, event, changes gone through>> of the fold
    folded,         \* the <<item, event>> positions handed to augment, in order
    printed,        \* what was written to stdout, in order
    pc,             \* where main() is
    exc,            \* the exception that ended main(), or "none"
    parts,          \* the <<sign, digits, suffix>> the token is written from
    tok,            \* the argument of a StateChange under construction
    sc,             \* the StateChange constructed from tok, or None
    fs,             \* one FactionStats object
    ev,             \* the last event fs.augment was called with, or None
    raised,         \* the exception the last fs.augment raised, or "none"
    n               \* how many calls of fs.augment have returned or raised

vars == <<source, html, log_rows, items, log, faction_stats, pos, folded, printed, pc, exc,
          parts, tok, sc, fs, ev, raised, n>>

mainVars == <<source, html, log_rows, items, log, faction_stats, pos, folded, printed, pc, exc>>
changeVars == <<parts, tok, sc>>
augmentVars == <<fs, ev, raised, n>>

-----------------------------------------------------------------------------
(* Bounds of the model.                                                    *)

\* the longest digit run of a token given to StateChange
MaxDigits == 2
\* the number of <tr> rows of the page
MaxRows == 2
\* the number of events one FactionStats object is augmented with
MaxAugments == 2
\* the largest quantity of a delta handed to augment
MaxQty == 5

-----------------------------------------------------------------------------
(* Python values.                                                          *)

None == [none |-> TRUE]
Some(v) == [some |-> v]
IsNone(x) == "none" \in DOMAIN x
IsExc(x) == "exc" \in DOMAIN x
Raise(name) == [exc |-> name, printed |-> <<>>]
\* print(...) of the lines, then the exception
RaiseAfter(lines, name) == [exc |-> name, printed |-> lines]
\* a line of stdout: a fixed text and, where the code appends one, a str
Line(text) == [text |-> text]
LineWith(text, arg) == [text |-> text, arg |-> arg]
\* print(tabulate(rows, ...)): one of the three tables
Table(name) == [table |-> name]
HasAttr(obj, field) == field \in DOMAIN obj

Min(S) == CHOOSE x \in S : \A y \in S : x <= y
Max(S) == CHOOSE x \in S : \A y \in S : y <= x

-----------------------------------------------------------------------------
(* str methods, on sequences of code points.                               *)

\* the code points str.strip() removes: those str.isspace() holds of
Whitespace ==
    {9, 10, 11, 12, 13, 28, 29, 30, 31, 32, 133, 160, 5760, 8192, 8193, 8194,
     8195, 8196, 8197, 8198, 8199, 8200, 8201, 8202, 8232, 8233, 8239, 8287,
     12288}

\* The code points \d matches in a str pattern (no re.ASCII): the Unicode
\* decimal digits. They come in runs of ten, zero to nine; these are the
\* code points of the zeros.
DigitZeros ==
    {48, 1632, 1776, 1984, 2406, 2534, 2662, 2790, 2918, 3046, 3174, 3302,
     3430, 3558, 3664, 3792, 3872, 4160, 4240, 6112, 6160, 6470, 6608, 6784,
     6800, 6992, 7088, 7232, 7248, 42528, 43216, 43264, 43472, 43504, 43600,
     44016, 65296, 66720, 68912, 69734, 69872, 69942, 70096, 70384, 70736,
     70864, 71248, 71360, 71472, 71904, 72016, 72784, 73040, 73120, 92768,
     92864, 93008, 120782, 120792, 120802, 120812, 120822, 123200, 123632,
     125264, 130032}

IsDigit(c) == \E z \in DigitZeros : z <= c /\ c <= z + 9

\* s.strip()
Strip(s) ==
    LET keep == {i \in 1..Len(s) : s[i] \notin Whitespace}
    IN  IF keep = {} THEN <<>> ELSE SubSeq(s, Min(keep), Max(keep))

\* s.replace(c, '') for a one-character c
RemoveChar(s, c) == SelectSeq(s, LAMBDA x : x # c)

\* s.split(sep) for a one-character sep: empty pieces are kept
RECURSIVE Split(_, _)
Split(s, sep) ==
    LET at == {i \in 1..Len(s) : s[i] = sep}
    IN  IF at = {} THEN <<s>>
        ELSE <<SubSeq(s, 1, Min(at) - 1)>> \o Split(SubSeq(s, Min(at) + 1, Len(s)), sep)

\* s.endswith(suffix)
EndsWith(s, suffix) ==
    /\ Len(suffix) <= Len(s)
    /\ SubSeq(s, Len(s) - Len(suffix) + 1, Len(s)) = suffix

\* sub in s
Contains(sub, s) ==
    \E i \in 0..(Len(s) - Len(sub)) : SubSeq(s, i + 1, i + Len(sub)) = sub

\* a pattern \d in place of \d+: the first digit alone
FirstDigit(s) ==
    LET digits == {i \in 1..Len(s) : IsDigit(s[i])}
    IN  IF digits = {} THEN <<>> ELSE <<s[Min(digits)]>>

\* re.findall(r'\d+', s): the first match, or <<>> when the list is empty
FirstDigitRun(s) ==
    LET digits == {i \in 1..Len(s) : IsDigit(s[i])}
    IN  IF digits = {} THEN <<>>
        ELSE LET a == Min(digits)
                 b == Max({j \in a..Len(s) : \A k \in a..j : IsDigit(s[k])})
             IN  SubSeq(s, a, b)

\* the value int() gives a decimal digit
DigitVal(c) == c - (CHOOSE z \in DigitZeros : z <= c /\ c <= z + 9)

\* the number a run of decimal digits, of any scripts, writes
RECURSIVE DigitsValue(_)
DigitsValue(s) ==
    IF s = <<>> THEN 0
    ELSE 10 * DigitsValue(SubSeq(s, 1, Len(s) - 1)) + DigitVal(s[Len(s)])

\* sys.get_int_max_str_digits() of the interpreter, by default
int_max_str_digits == 4300

\* int(s) for a run of decimal digits: the int, or ValueError for the empty
\* str and for more digits than the interpreter converts
ToInt(s) ==
    IF s = <<>> \/ Len(s) > int_max_str_digits THEN Raise("ValueError")
    ELSE Some(DigitsValue(s))

-----------------------------------------------------------------------------
(* The vocabularies.                                                       *)

FACTIONS == <<
    <<97, 109, 98, 97, 115>>, <<98, 97, 108, 116, 97, 107, 115>>, <<98, 101, 115, 99, 111, 100, 115>>, <<102, 105, 114, 97, 107, 115>>, <<103, 101, 111, 100, 101, 110, 115>>, <<103, 108, 101, 101, 110, 115>>,
    <<104, 97, 100, 115, 99, 104, 45, 104, 97, 108, 108, 97, 115>>, <<105, 116, 97, 114, 115>>, <<105, 118, 105, 116, 115>>, <<108, 97, 110, 116, 105, 100, 115>>, <<110, 101, 118, 108, 97, 115>>,
    <<116, 97, 107, 108, 111, 110, 115>>, <<116, 101, 114, 114, 97, 110, 115>>, <<120, 101, 110, 111, 115>> >>

TECH_TRACKS == << <<116, 101, 114, 114, 97>>, <<110, 97, 118>>, <<105, 110, 116>>, <<103, 97, 105, 97>>, <<101, 99, 111>>, <<115, 99, 105>> >>

Res == {"COIN", "ORE", "KNOWLEDGE", "QIC", "POWER", "PT", "VP"}
ChangeType == {"GAIN", "LOSS"}

\* StateChange._RESOURCE_MAP, in the order the dict is iterated
RESOURCE_MAP == <<
    << <<99>>, "COIN" >>, << <<111>>, "ORE" >>, << <<107>>, "KNOWLEDGE" >>, << <<113>>, "QIC" >>,
    << <<112, 119>>, "POWER" >>, << <<116>>, "PT" >>, << <<118, 112>>, "VP" >> >>

-----------------------------------------------------------------------------
(* StateChange.__init__                                                    *)

\* the loop over _RESOURCE_MAP.items(): the first entry the string ends with
FirstSuffix(state_change_string) ==
    LET hits == {i \in 1..Len(RESOURCE_MAP) :
                    EndsWith(state_change_string, RESOURCE_MAP[i][1])}
    IN  IF hits = {} THEN None ELSE Some(RESOURCE_MAP[Min(hits)][2])

ChangeTypeOf(state_change_string) ==
    IF state_change_string[1] = 45 THEN "LOSS" ELSE "GAIN"

\* a constructor that takes a token without digits for a quantity of 0
StateChangeLenient(state_change_string) ==
    IF state_change_string = <<>> THEN Raise("ValueError")
    ELSE LET type == ChangeTypeOf(state_change_string)
             res == FirstSuffix(state_change_string)
             run == FirstDigitRun(state_change_string)
         IN  IF IsNone(res) THEN [type |-> type, quantity |-> DigitsValue(run)]
             ELSE [type |-> type, resource |-> res.some, quantity |-> DigitsValue(run)]

\* The object built, without the attribute resource when no suffix matched;
\* or the exception raised: sys.exit raises SystemExit, after the print, and
\* the ValueError of int() passes the `except IndexError' of line 69.
StateChange(state_change_string) ==
    IF state_change_string = <<>> THEN Raise("ValueError")
    ELSE LET type == ChangeTypeOf(state_change_string)
             res == FirstSuffix(state_change_string)
             run == FirstDigitRun(state_change_string)
         IN  IF run = <<>>
             THEN RaiseAfter(<<LineWith("No quantity found in ", state_change_string)>>,
                             "SystemExit")
             ELSE LET quantity == ToInt(run)
                  IN  IF IsExc(quantity) THEN quantity
                      ELSE IF IsNone(res) THEN [type |-> type, quantity |-> quantity.some]
                      ELSE [type |-> type, resource |-> res.some,
                            quantity |-> quantity.some]

-----------------------------------------------------------------------------
(* LogItem                                                                 *)

\* A <tr> row: the number of its <td> cells, the string of the first cell,
\* and the strings of the <div>s of the second and of the third cell.
Row(ncols, text, actions, state_changes) ==
    [ncols |-> ncols, text |-> text, actions |-> actions,
     state_changes |-> state_changes]

LogItem(text, faction, events) ==
    [text |-> text, faction |-> faction, events |-> events]

\* LogItem._get_faction: the first faction of _FACTIONS that occurs in text
get_faction(text) ==
    LET hits == {i \in 1..Len(FACTIONS) : Contains(FACTIONS[i], text)}
    IN  IF hits = {} THEN None ELSE Some(FACTIONS[Min(hits)])

\* the inner loop of _compute_events: one StateChange, None or exception
\* for each piece of the split string
ChangeList(state_change) ==
    LET state_change_list == Split(RemoveChar(Strip(state_change), 44), 32)
    IN  [i \in 1..Len(state_change_list) |->
            IF Strip(state_change_list[i]) # <<>>
            THEN StateChange(Strip(state_change_list[i]))
            ELSE None]

\* the first exception of a list of results, or None
FirstExc(results) ==
    LET bad == {i \in 1..Len(results) : IsExc(results[i])}
    IN  IF bad = {} THEN None ELSE results[Min(bad)]

\* LogItem._compute_events: zip stops at the shorter list
compute_events(actions, state_changes) ==
    LET len == IF Len(actions) <= Len(state_changes)
               THEN Len(actions) ELSE Len(state_changes)
        lists == [i \in 1..len |-> ChangeList(state_changes[i])]
        excs == [i \in 1..len |-> FirstExc(lists[i])]
        bad == {i \in 1..len : ~IsNone(excs[i])}
    IN  IF bad # {} THEN excs[Min(bad)]
        ELSE Some([i \in 1..len |-> <<Strip(actions[i]), lists[i]>>])

\* LogItem.parse_from_HTML: the LogItem, or the exception raised
LogItem_parse_from_HTML(row) ==
    IF row.ncols < 1 THEN Raise("ValueError")
    ELSE LET text == Strip(row.text)
             faction == get_faction(text)
             events == IF row.ncols = 3
                       THEN compute_events(row.actions, row.state_changes)
                       ELSE None
         IN  IF IsExc(events) THEN events ELSE LogItem(text, faction, events)

-----------------------------------------------------------------------------
(* GameLog                                                                 *)

\* rows left in source order
NoReverse(seq) == seq

\* list.reverse()
Reverse(seq) == [i \in 1..Len(seq) |-> seq[Len(seq) + 1 - i]]

GameLog(fnames, its) == [factions |-> fnames, items |-> its]

\* the loop of GameLog.parse_from_HTML that collects the factions
CollectFactions(its) ==
    {Strip(its[i].faction.some) : i \in {j \in 1..Len(its) : ~IsNone(its[j].faction)}}

-----------------------------------------------------------------------------
(* VPStats, ResourceStats, FactionStats                                    *)

\* FactionStats.__init__: VPStats.__init__ then ResourceStats.__init__
FactionStats(faction) ==
    [faction |-> faction,
     vp |-> 10,
     vp_lost_from_leech |-> 0,
     vp_from_round_scoring |-> 0,
     vp_from_boosters |-> 0,
     vp_from_endgame |-> 0,
     vp_from_techs |-> 0,
     vp_from_adv_techs |-> 0,
     vp_from_feds |-> 0,
     vp_from_qic_act |-> 0,
     vp_from_tracks |-> 0,
     vp_from_resources |-> 0,
     leech |-> 0,
     power |-> 0,
     coins |-> 0,
     ore |-> 0,
     knowledge |-> 0,
     qic |-> 0,
     pt |-> 0]

InTechTracks(action) == \E i \in 1..Len(TECH_TRACKS) : TECH_TRACKS[i] = action

\* a rule order in which 'adv' is tested before 'tech'
BucketOfAdvBeforeTech(action) ==
    IF Contains(<<114, 111, 117, 110, 100>>, action) THEN "vp_from_round_scoring"
    ELSE IF Contains(<<98, 111, 111, 115, 116, 101, 114>>, action) THEN "vp_from_boosters"
    ELSE IF Contains(<<102, 105, 110, 97, 108>>, action) THEN "vp_from_endgame"
    ELSE IF Contains(<<97, 100, 118>>, action) THEN "vp_from_adv_techs"
    ELSE IF Contains(<<116, 101, 99, 104>>, action) THEN "vp_from_techs"
    ELSE IF <<102, 101, 100, 101, 114, 97, 116, 105, 111, 110>> = action THEN "vp_from_feds"
    ELSE IF Contains(<<113, 105, 99>>, action) THEN "vp_from_qic_act"
    ELSE IF InTechTracks(action) THEN "vp_from_tracks"
    ELSE IF <<115, 112, 101, 110, 100>> = action THEN "vp_from_resources"
    ELSE IF <<99, 104, 97, 114, 103, 101>> = action THEN "vp_lost_from_leech"
    ELSE "none"

\* The conditions of the if/elif chain of VPStats.update_vp, lines 186-204:
\* the attribute the branch taken updates, "none" when no branch is taken.
BucketOf(action) ==
    IF Contains(<<114, 111, 117, 110, 100>>, action) THEN "vp_from_round_scoring"
    ELSE IF Contains(<<98, 111, 111, 115, 116, 101, 114>>, action) THEN "vp_from_boosters"
    ELSE IF Contains(<<102, 105, 110, 97, 108>>, action) THEN "vp_from_endgame"
    ELSE IF Contains(<<116, 101, 99, 104>>, action) THEN "vp_from_techs"
    ELSE IF Contains(<<97, 100, 118>>, action) THEN "vp_from_adv_techs"
    ELSE IF <<102, 101, 100, 101, 114, 97, 116, 105, 111, 110>> = action THEN "vp_from_feds"
    ELSE IF Contains(<<113, 105, 99>>, action) THEN "vp_from_qic_act"
    ELSE IF InTechTracks(action) THEN "vp_from_tracks"
    ELSE IF <<115, 112, 101, 110, 100>> = action THEN "vp_from_resources"
    ELSE IF <<99, 104, 97, 114, 103, 101>> = action THEN "vp_lost_from_leech"
    ELSE "none"

\* a leech branch that adds the quantity as the other branches do
BucketUpdateLeechAdds(self, action, change) ==
    LET field == BucketOf(action)
    IN  IF field = "none" THEN self
        ELSE [self EXCEPT ![field] = @ + change.quantity]

\* branches that follow the direction of the change
BucketUpdateSigned(self, action, change) ==
    LET field == BucketOf(action)
        signed == IF change.type = "LOSS" THEN 0 - change.quantity ELSE change.quantity
    IN  IF field = "none" THEN self
        ELSE IF field = "vp_lost_from_leech" THEN [self EXCEPT ![field] = @ - signed]
        ELSE [self EXCEPT ![field] = @ + signed]

\* The bodies of the branches, lines 187-205: += change.quantity, and
\* -= change.quantity in the branch of 'charge'.
BucketUpdate(self, action, change) ==
    LET field == BucketOf(action)
    IN  IF field = "none" THEN self
        ELSE IF field = "vp_lost_from_leech"
        THEN [self EXCEPT ![field] = @ - change.quantity]
        ELSE [self EXCEPT ![field] = @ + change.quantity]

\* a total that follows gains only
TotalUpdateGainOnly(self, change) ==
    IF change.type = "GAIN" THEN [self EXCEPT !.vp = @ + change.quantity] ELSE self

\* the total, lines 207-210
TotalUpdate(self, change) ==
    IF change.type = "GAIN" THEN [self EXCEPT !.vp = @ + change.quantity]
    ELSE IF change.type = "LOSS" THEN [self EXCEPT !.vp = @ - change.quantity]
    ELSE self

\* What a method call leaves: the object after it, and the exception it
\* raised or "none". An exception keeps the assignments made before it.
Returned(self) == [self |-> self, exc |-> "none"]
Raised(self, name) == [self |-> self, exc |-> name]

\* VPStats.update_vp. change.type of line 182 raises AttributeError on None,
\* change.resource of line 184 on a StateChange no suffix matched.
update_vp(self, action, change) ==
    IF IsNone(change) THEN Raised(self, "AttributeError")
    ELSE IF ~HasAttr(change, "resource") THEN Raised(self, "AttributeError")
    ELSE IF ~(change.resource = "VP") THEN Returned(self)
    ELSE Returned(TotalUpdate(BucketUpdate(self, action, change), change))

\* ResourceStats._RESOURCE_TO_FIELD_MAP
RESOURCE_TO_FIELD_MAP ==
    [POWER |-> "power", COIN |-> "coins", ORE |-> "ore",
     KNOWLEDGE |-> "knowledge", QIC |-> "qic", PT |-> "pt"]

\* a leech counter for every label that contains 'charge'
LeechUpdateContains(self, action, change) ==
    IF Contains(<<99, 104, 97, 114, 103, 101>>, action)
    THEN [self EXCEPT !.leech = @ + change.quantity] ELSE self

\* the leech counter, lines 242-243
LeechUpdate(self, action, change) ==
    IF <<99, 104, 97, 114, 103, 101>> = action THEN [self EXCEPT !.leech = @ + change.quantity] ELSE self

\* bookkeeping that subtracts what is lost
UpdateResourcesSigned(self, action, change) ==
    IF IsNone(change) THEN Raised(self, "AttributeError")
    ELSE IF ~HasAttr(change, "resource") THEN Raised(self, "AttributeError")
    ELSE IF change.resource \notin DOMAIN RESOURCE_TO_FIELD_MAP
    THEN Raised(self, "KeyError")
    ELSE LET field == RESOURCE_TO_FIELD_MAP[change.resource]
             signed == IF change.type = "LOSS" THEN 0 - change.quantity
                       ELSE change.quantity
         IN  Returned([self EXCEPT ![field] = @ + signed])

\* ResourceStats.update_resources, in the order of its statements: the
\* return on a loss (lines 237-238), the leech counter (lines 242-243), then
\* the look-up of line 245, which raises KeyError on a resource the map
\* lacks (VP) and AttributeError on a StateChange no suffix matched, the
\* leech counter already raised; then the counter of the kind.
update_resources(self, action, change) ==
    IF IsNone(change) THEN Raised(self, "AttributeError")
    ELSE IF change.type = "LOSS" THEN Returned(self)
    ELSE LET leeched == LeechUpdate(self, action, change)
         IN  IF ~HasAttr(change, "resource") THEN Raised(leeched, "AttributeError")
             ELSE IF change.resource \notin DOMAIN RESOURCE_TO_FIELD_MAP
             THEN Raised(leeched, "KeyError")
             ELSE LET field == RESOURCE_TO_FIELD_MAP[change.resource]
                  IN  Returned([leeched EXCEPT ![field] = @ + change.quantity])

\* The loop of FactionStats.augment from the k-th change on. change.resource
\* of line 263 raises AttributeError on None and on a StateChange no suffix
\* matched. applied counts the changes the loop went through before an
\* exception; stats is the object as the exception left it.
RECURSIVE AugmentFrom(_, _, _, _)
AugmentFrom(self, action, changes, k) ==
    IF k > Len(changes) THEN [stats |-> self, exc |-> "none", applied |-> k - 1]
    ELSE LET change == changes[k]
         IN  IF IsNone(change) \/ ~HasAttr(change, "resource")
             THEN [stats |-> self, exc |-> "AttributeError", applied |-> k - 1]
             ELSE LET r == IF change.resource = "VP"
                           THEN update_vp(self, action, change)
                           ELSE update_resources(self, action, change)
                  IN  IF r.exc # "none"
                      THEN [stats |-> r.self, exc |-> r.exc, applied |-> k - 1]
                      ELSE AugmentFrom(r.self, action, changes, k + 1)

\* FactionStats.augment
augment(self, event) == AugmentFrom(self, event[1], event[2], 1)

-----------------------------------------------------------------------------
(* main(): the argument and the page, then GameLog.parse_from_HTML,        *)
(* Stats(log) and stats.breakdown(), one step per row parsed and per event *)
(* folded.                                                                 *)

\* What main() is run on: without an argument; a page that timed out (html
\* stays None); an empty page source; a page without the <div> of the log
\* (soup.find returns None); a <div> without a <table> (html.table is None);
\* a <div> with the table of the log.
Sources == {"no_argv", "timeout", "empty", "no_div", "no_table", "log"}

\* The rows a page is made of. The last two are written with the digit
\* U+0663, the spaces U+00A0 and U+2003, a carriage return, a form feed and
\* a tab inside a group.
RowUniverse == {
    Row(3, <<116, 101, 114, 114, 97, 110, 115, 32, 99, 104, 97, 114, 103, 101>>, << <<99, 104, 97, 114, 103, 101>> >>, << <<51, 118, 112>> >>),
    Row(3, <<32, 116, 101, 114, 114, 97, 110, 115, 32, 114, 111, 117, 110, 100, 32, 49, 32>>, << <<32, 114, 111, 117, 110, 100>> >>, << <<50, 118, 112>> >>),
    Row(3, <<105, 118, 105, 116, 115, 32, 102, 111, 114, 109, 32, 102, 101, 100, 101, 114, 97, 116, 105, 111, 110>>, << <<102, 101, 100, 101, 114, 97, 116, 105, 111, 110>> >>, << <<52, 118, 112, 44, 32, 50, 99>> >>),
    Row(3, <<105, 118, 105, 116, 115, 32, 98, 117, 105, 108, 100, 32, 109>>, << <<98, 117, 105, 108, 100, 32, 109>>, <<99, 104, 97, 114, 103, 101>> >>, << <<45, 50, 111, 44, 32, 45, 49, 99>>, <<43, 50, 112, 119, 32, 49, 116>> >>),
    Row(3, <<116, 101, 114, 114, 97, 110, 115, 32, 99, 104, 97, 114, 103, 101>>, << <<99, 104, 97, 114, 103, 101>> >>, << <<45, 50, 118, 112, 32, 51, 112, 119>> >>),
    Row(3, <<105, 118, 105, 116, 115, 32, 98, 117, 105, 108, 100>>, << <<98, 117, 105, 108, 100>> >>, << <<45, 49, 48, 118, 112>> >>),
    Row(3, <<116, 101, 114, 114, 97, 110, 115, 32, 115, 112, 101, 110, 100>>, << <<115, 112, 101, 110, 100>> >>, << <<49, 118, 112, 44, 32, 32, 49, 113>> >>),
    Row(3, <<105, 118, 105, 116, 115, 32, 112, 97, 115, 115>>, << <<112, 97, 115, 115>> >>, << <<>> >>),
    Row(3, <<105, 118, 105, 116, 115, 32, 115, 112, 101, 110, 100>>, << <<115, 112, 101, 110, 100>> >>, << <<49, 107, 32, 51>> >>),
    Row(3, <<116, 101, 114, 114, 97, 110, 115, 32, 98, 117, 105, 108, 100>>, << <<98, 117, 105, 108, 100>> >>, << <<50, 99, 32, 97, 98, 99>> >>),
    Row(3, <<114, 111, 117, 110, 100, 32, 49, 32, 105, 110, 99, 111, 109, 101>>, << <<105, 110, 99, 111, 109, 101>> >>, << <<43, 118, 112>> >>),
    Row(3, <<115, 101, 116, 117, 112>>, << <<99, 104, 97, 114, 103, 101>> >>, << <<53, 118, 112>> >>),
    Row(2, <<120, 101, 110, 111, 115, 32, 97, 110, 100, 32, 116, 101, 114, 114, 97, 110, 115, 32, 112, 97, 115, 115>>, <<>>, <<>>),
    Row(1, <<114, 111, 117, 110, 100, 32, 50, 32, 115, 116, 97, 114, 116, 115>>, <<>>, <<>>),
    Row(0, <<>>, <<>>, <<>>),
    Row(3, <<160, 105, 118, 105, 116, 115, 32, 99, 104, 97, 114, 103, 101, 13, 10>>, << <<12, 99, 104, 97, 114, 103, 101, 8195>> >>, << <<13, 1635, 112, 119, 11>> >>),
    Row(3, <<116, 101, 114, 114, 97, 110, 115, 32, 115, 112, 101, 110, 100>>, << <<115, 112, 101, 110, 100>> >>, << <<50, 113, 9, 97, 98, 99>> >>) }

Pages == UNION {[1..len -> RowUniverse] : len \in 0..MaxRows}

InitMain ==
    /\ source \in Sources
    /\ html \in (IF source = "log" THEN Pages ELSE {<<>>})
    /\ log_rows = <<>>
    /\ items = <<>>
    /\ log = None
    /\ faction_stats = None
    /\ pos = <<1, 1, 0>>
    /\ folded = <<>>
    /\ printed = <<>>
    /\ pc = "main"
    /\ exc = "none"

IdleMain ==
    /\ source = "none"
    /\ html = <<>>
    /\ log_rows = <<>>
    /\ items = <<>>
    /\ log = None
    /\ faction_stats = None
    /\ pos = <<1, 1, 0>>
    /\ folded = <<>>
    /\ printed = <<>>
    /\ pc = "idle"
    /\ exc = "none"

IdleChange == parts = <<>> /\ tok = <<>> /\ sc = None
IdleAugment == fs = None /\ ev = None /\ raised = "none" /\ n = 0

\* main(), lines 363-385: sys.exit(1) without an argument; after a time-out,
\* and on an empty page source, `if html:' skips the rest and main() returns.
Fetch ==
    /\ pc = "main"
    /\ CASE source = "no_argv" ->
              /\ printed' = <<Line("A game URL must be supplied.")>>
              /\ pc' = "exit"
              /\ exc' = "SystemExit"
         [] source = "timeout" ->
              /\ printed' = <<Line("Loading took too much time!")>>
              /\ pc' = "done"
              /\ exc' = exc
         [] source = "empty" ->
              /\ pc' = "done"
              /\ UNCHANGED <<printed, exc>>
         [] OTHER ->
              /\ pc' = "find"
              /\ UNCHANGED <<printed, exc>>
    /\ UNCHANGED <<source, html, log_rows, items, log, faction_stats, pos, folded>>
    /\ UNCHANGED <<changeVars, augmentVars>>

\* main(), lines 386-388, and GameLog.parse_from_HTML, lines 150-152:
\* html.table raises AttributeError when soup.find returned None, and
\* html.table.tbody when the <div> has no <table>.
FindRows ==
    /\ pc = "find"
    /\ IF source \in {"no_div", "no_table"}
       THEN /\ pc' = "exit"
            /\ exc' = "AttributeError"
            /\ UNCHANGED log_rows
       ELSE /\ log_rows' = Reverse(html)
            /\ pc' = "parse"
            /\ UNCHANGED exc
    /\ UNCHANGED <<source, html, items, log, faction_stats, pos, folded, printed>>
    /\ UNCHANGED <<changeVars, augmentVars>>

\* one element of the list comprehension of line 153; an exception ends main()
ParseRow ==
    /\ pc = "parse"
    /\ Len(items) < Len(log_rows)
    /\ LET item == LogItem_parse_from_HTML(log_rows[Len(items) + 1])
       IN  IF IsExc(item)
           THEN /\ pc' = "exit"
                /\ exc' = item.exc
                /\ printed' = printed \o item.printed
                /\ items' = items
           ELSE /\ items' = Append(items, item)
                /\ UNCHANGED <<pc, exc, printed>>
    /\ UNCHANGED <<source, html, log_rows, log, faction_stats, pos, folded>>
    /\ UNCHANGED <<changeVars, augmentVars>>

\* GameLog.parse_from_HTML, lines 154-160
ReturnLog ==
    /\ pc = "parse"
    /\ Len(items) = Len(log_rows)
    /\ log' = Some(GameLog(CollectFactions(items), items))
    /\ pc' = "stats"
    /\ UNCHANGED <<source, html, log_rows, items, faction_stats, pos, folded, printed, exc>>
    /\ UNCHANGED <<changeVars, augmentVars>>

\* Stats.__init__, lines 273-274
NewStats ==
    /\ pc = "stats"
    /\ faction_stats' = Some([faction \in log.some.factions |-> FactionStats(faction)])
    /\ pos' = <<1, 1, 0>>
    /\ pc' = "fold"
    /\ UNCHANGED <<source, html, log_rows, items, log, folded, printed, exc>>
    /\ UNCHANGED <<changeVars, augmentVars>>

\* `item.faction and item.events'
Foldable(item) ==
    /\ ~IsNone(item.faction)
    /\ item.faction.some # <<>>
    /\ ~IsNone(item.events)
    /\ item.events.some # <<>>

\* Stats.__init__, lines 277-278: one event of the current item
AugmentEvent ==
    /\ pc = "fold"
    /\ pos[1] <= Len(log.some.items)
    /\ LET item == log.some.items[pos[1]]
       IN  /\ Foldable(item)
           /\ pos[2] <= Len(item.events.some)
           /\ LET r == augment(faction_stats.some[item.faction.some],
                               item.events.some[pos[2]])
              IN  /\ faction_stats' =
                        Some([faction_stats.some EXCEPT ![item.faction.some] = r.stats])
                  /\ folded' = Append(folded, <<pos[1], pos[2]>>)
                  /\ IF r.exc = "none"
                     THEN /\ pos' = <<pos[1], pos[2] + 1, 0>>
                          /\ UNCHANGED <<pc, exc>>
                     ELSE /\ pos' = <<pos[1], pos[2], r.applied>>
                          /\ pc' = "exit"
                          /\ exc' = r.exc
    /\ UNCHANGED <<source, html, log_rows, items, log, printed>>
    /\ UNCHANGED <<changeVars, augmentVars>>

\* Stats.__init__, lines 275-277: on to the next item
NextItem ==
    /\ pc = "fold"
    /\ pos[1] <= Len(log.some.items)
    /\ LET item == log.some.items[pos[1]]
       IN  IF Foldable(item) THEN pos[2] > Len(item.events.some) ELSE TRUE
    /\ pos' = <<pos[1] + 1, 1, 0>>
    /\ UNCHANGED <<source, html, log_rows, items, log, faction_stats, folded, printed, pc, exc>>
    /\ UNCHANGED <<changeVars, augmentVars>>

\* Stats.__init__ returns
EndFold ==
    /\ pc = "fold"
    /\ pos[1] > Len(log.some.items)
    /\ pc' = "report"
    /\ UNCHANGED <<source, html, log_rows, items, log, faction_stats, pos, folded, printed, exc>>
    /\ UNCHANGED <<changeVars, augmentVars>>

\* the divisions of lines 310-319 raise ZeroDivisionError on a total of 0
ZeroTotal(stats) == \E faction \in DOMAIN stats : stats[faction].vp = 0

\* breakdown_vp up to the divisions, the rest of it, breakdown_resources
VPBreakdown == <<Line("VP breakdown:"), Table("vp"), Line(""), Line("VP Percentages:")>>
VPPercentages == <<Table("percentages"), Line("")>>
ResourcesBreakdown == <<Line("Resources breakdown:"), Table("resources")>>

\* Stats.breakdown: what is printed, in order
Breakdown ==
    /\ pc = "report"
    /\ IF ZeroTotal(faction_stats.some)
       THEN /\ printed' = printed \o VPBreakdown
            /\ pc' = "exit"
            /\ exc' = "ZeroDivisionError"
       ELSE /\ printed' = printed \o VPBreakdown \o VPPercentages
                                    \o ResourcesBreakdown
            /\ pc' = "done"
            /\ exc' = exc
    /\ UNCHANGED <<source, html, log_rows, items, log, faction_stats, pos, folded>>
    /\ UNCHANGED <<changeVars, augmentVars>>

Init == InitMain /\ IdleChange /\ IdleAugment

Next ==
    \/ Fetch
    \/ FindRows
    \/ ParseRow
    \/ ReturnLog
    \/ NewStats
    \/ AugmentEvent
    \/ NextItem
    \/ EndFold
    \/ Breakdown

Spec == Init /\ [][Next]_vars

-----------------------------------------------------------------------------
(* StateChange(tok) for one token.                                         *)

Signs == {<<>>, <<43>>, <<45>>}
\* the digits the tokens are written with: 0 to 9, U+0663 and U+FF17
TokenDigits == (48..57) \cup {1635, 65303}
DigitStrings == UNION {[1..len -> TokenDigits] : len \in 0..MaxDigits}
Suffixes == {RESOURCE_MAP[i][1] : i \in 1..Len(RESOURCE_MAP)}
OtherSuffixes == {<<>>, <<120>>}
TokenParts == Signs \X DigitStrings \X (Suffixes \cup OtherSuffixes)

InitChange ==
    /\ parts \in TokenParts
    /\ tok = parts[1] \o parts[2] \o parts[3]
    /\ sc = None

Construct ==
    /\ IsNone(sc)
    /\ sc' = StateChange(tok)
    /\ UNCHANGED <<parts, tok, mainVars, augmentVars>>

InitC == IdleMain /\ InitChange /\ IdleAugment

NextC == Construct

SpecChange == InitC /\ [][NextC]_vars

-----------------------------------------------------------------------------
(* One FactionStats object and the events it is augmented with.            *)

\* Action labels: one for each rule of update_vp, labels that match several
\* rules, labels that contain a word a rule wants equal, and one that matches
\* no rule.
Labels == {
    <<114, 111, 117, 110, 100>>, <<98, 111, 111, 115, 116, 101, 114>>, <<102, 105, 110, 97, 108>>, <<116, 101, 99, 104>>, <<97, 100, 118>>, <<97, 100, 118, 32, 116, 101, 99, 104>>,
    <<102, 101, 100, 101, 114, 97, 116, 105, 111, 110>>, <<102, 101, 100, 101, 114, 97, 116, 105, 111, 110, 115>>, <<113, 105, 99>>, <<116, 101, 114, 114, 97>>, <<115, 99, 105>>, <<115, 112, 101, 110, 100>>,
    <<99, 104, 97, 114, 103, 101>>, <<114, 101, 99, 104, 97, 114, 103, 101>>, <<98, 117, 105, 108, 100>>, <<114, 111, 117, 110, 100, 32, 98, 111, 111, 115, 116, 101, 114>> }

\* the labels the other resources come with
ResourceLabels == { <<99, 104, 97, 114, 103, 101>>, <<114, 101, 99, 104, 97, 114, 103, 101>>, <<98, 117, 105, 108, 100>> }

\* the quantities of the deltas: the smallest and the largest
Quantities == {1, MaxQty}

VPDeltas == [type : ChangeType, resource : {"VP"}, quantity : Quantities]

\* a StateChange of another resource, one without resource, or None
OtherDeltas ==
    [type : ChangeType, resource : Res \ {"VP"}, quantity : Quantities]
        \cup [type : ChangeType, quantity : Quantities]
        \cup {None}

Events ==
    {<<action, <<change>>>> : action \in Labels, change \in VPDeltas}
        \cup {<<action, <<change>>>> : action \in ResourceLabels, change \in OtherDeltas}

InitAugment ==
    /\ fs = FactionStats(<<116, 101, 114, 114, 97, 110, 115>>)
    /\ ev = None
    /\ raised = "none"
    /\ n = 0

\* fs.augment(event), for any event
Augment ==
    /\ n < MaxAugments
    /\ raised = "none"
    /\ \E event \in Events :
          LET r == augment(fs, event)
          IN  /\ fs' = r.stats
              /\ ev' = Some(event)
              /\ raised' = r.exc
    /\ n' = n + 1
    /\ UNCHANGED <<mainVars, changeVars>>

InitA == IdleMain /\ IdleChange /\ InitAugment

NextA == Augment

SpecAugment == InitA /\ [][NextA]_vars

-----------------------------------------------------------------------------
(* What the properties are stated with.                                    *)

Terrans == <<116, 101, 114, 114, 97, 110, 115>>
Ivits == <<105, 118, 105, 116, 115>>

\* a change that is a StateChange with a resource
IsDelta(change) == ~IsNone(change) /\ HasAttr(change, "resource")
IsVP(change) == IsDelta(change) /\ change.resource = "VP"
IsOther(change) == IsDelta(change) /\ change.resource # "VP"

\* the sum of the first k numbers of a sequence
RECURSIVE SumTo(_, _)
SumTo(seq, k) == IF k = 0 THEN 0 ELSE seq[k] + SumTo(seq, k - 1)

\* Gain VictoryPoint quantity minus Loss VictoryPoint quantity of one change
SignedVP(change) ==
    IF ~IsVP(change) THEN 0
    ELSE IF change.type = "GAIN" THEN change.quantity
    ELSE 0 - change.quantity

\* how many changes of event b of item a the fold has gone through at pos
Through(a, b, changes) ==
    IF a < pos[1] \/ (a = pos[1] /\ b < pos[2]) THEN Len(changes)
    ELSE IF a = pos[1] /\ b = pos[2] THEN pos[3]
    ELSE 0

EventVP(a, b, changes) ==
    SumTo([k \in 1..Len(changes) |-> SignedVP(changes[k])], Through(a, b, changes))

ItemVP(a, item) ==
    SumTo([b \in 1..Len(item.events.some) |-> EventVP(a, b, item.events.some[b][2])],
          Len(item.events.some))

\* 10 + gains - losses of VictoryPoint over what of p's events is folded
ExpectedVP(p) ==
    LET its == log.some.items
    IN  10 + SumTo([a \in 1..Len(its) |->
                       IF Foldable(its[a]) /\ its[a].faction.some = p
                       THEN ItemVP(a, its[a]) ELSE 0],
                   Len(its))

Stepped == n' = n + 1
\* the label and the change of the event a step of Augment folds
LabelFolded == ev'.some[1]
DeltaFolded == ev'.some[2][1]

Buckets == {
    "vp_from_round_scoring", "vp_from_boosters", "vp_from_endgame", "vp_from_techs",
    "vp_from_adv_techs", "vp_from_feds", "vp_from_qic_act", "vp_from_tracks",
    "vp_from_resources" }
LeechBucket == "vp_lost_from_leech"
Kinds == {"power", "coins", "ore", "knowledge", "qic", "pt"}
KindOf ==
    [COIN |-> "coins", ORE |-> "ore", KNOWLEDGE |-> "knowledge", QIC |-> "qic",
     POWER |-> "power", PT |-> "pt"]

Charge == <<99, 104, 97, 114, 103, 101>>

-----------------------------------------------------------------------------
(* C1 *)

\* C1: at every point of the fold, each participant's total vp is 10 plus the
\* Gain VictoryPoint quantities minus the Loss VictoryPoint quantities of the
\* changes of that participant's events folded so far, whatever the labels.
C1_TotalIsSignedSum ==
    ~IsNone(faction_stats) =>
        \A p \in DOMAIN faction_stats.some : faction_stats.some[p].vp = ExpectedVP(p)

\* a finished fold of a gain under 'federation' and a loss under a label that
\* matches no rule
C1_Witness ==
    /\ pc = "done"
    /\ Len(html) = 2
    /\ html[2].actions = << <<102, 101, 100, 101, 114, 97, 116, 105, 111, 110>> >>
    /\ html[1].actions = << <<98, 117, 105, 108, 100>> >>
    /\ html[1].state_changes = << <<45, 49, 48, 118, 112>> >>
    /\ folded = << <<1, 1>>, <<2, 1>> >>
    /\ faction_stats.some[Ivits].vp = 4
    /\ faction_stats.some[Ivits].vp_from_feds = 4

-----------------------------------------------------------------------------
(* C2 *)

\* C2: folding ("charge", [Gain VictoryPoint N]) raises the total vp by N,
\* lowers vp_lost_from_leech by N and changes no other victory-point bucket.
C2_ChargeGain ==
    [][(Stepped /\ LabelFolded = Charge /\ IsVP(DeltaFolded) /\ DeltaFolded.type = "GAIN") =>
          /\ fs'.vp = fs.vp + DeltaFolded.quantity
          /\ fs'.vp_lost_from_leech = fs.vp_lost_from_leech - DeltaFolded.quantity
          /\ \A b \in Buckets : fs'[b] = fs[b]]_vars

\* ("charge", [5vp]) after ("round", [1vp])
C2_Witness ==
    /\ n = 2
    /\ ev.some = <<Charge, <<[type |-> "GAIN", resource |-> "VP", quantity |-> 5]>>>>
    /\ fs.vp = 16
    /\ fs.vp_lost_from_leech = -5
    /\ fs.vp_from_round_scoring = 1

-----------------------------------------------------------------------------
(* C3 *)

\* C3: a None in an event's change list is skipped by the fold: no exception
\* ends the run at it.
C3_AbsentDeltaSkipped ==
    ~(/\ pc = "exit"
      /\ ~IsNone(faction_stats)
      /\ printed = <<>>
      /\ LET changes == log.some.items[pos[1]].events.some[pos[2]][2]
         IN  IsNone(changes[pos[3] + 1]))

-----------------------------------------------------------------------------
(* C4 *)

\* the <<item, event>> positions of the events the fold is to consume
RECURSIVE FoldOrder(_, _)
FoldOrder(its, a) ==
    IF a > Len(its) THEN <<>>
    ELSE (IF Foldable(its[a])
          THEN [b \in 1..Len(its[a].events.some) |-> <<a, b>>]
          ELSE <<>>) \o FoldOrder(its, a + 1)

IsPrefix(s, t) == Len(s) <= Len(t) /\ SubSeq(t, 1, Len(s)) = s

\* C4: the items of the GameLog are the rows of the page parsed one by one, in
\* reversed order, as many as the rows; and the fold consumes the events of
\* the items in that order.
C4_Chronological ==
    ~IsNone(log) =>
        /\ Len(log.some.items) = Len(html)
        /\ \A k \in 1..Len(html) :
              log.some.items[k] = LogItem_parse_from_HTML(html[Len(html) + 1 - k])
        /\ IsPrefix(folded, FoldOrder(log.some.items, 1))
        /\ pc \in {"report", "done"} => folded = FoldOrder(log.some.items, 1)

\* the page [("round", 2vp), ("charge", 3vp)], latest first, of one participant
C4_Witness ==
    /\ pc = "done"
    /\ Len(html) = 2
    /\ html[1].actions = << <<32, 114, 111, 117, 110, 100>> >>
    /\ html[2].actions = << <<99, 104, 97, 114, 103, 101>> >>
    /\ html[2].state_changes = << <<51, 118, 112>> >>
    /\ log.some.items[1].text = <<116, 101, 114, 114, 97, 110, 115, 32, 99, 104, 97, 114, 103, 101>>
    /\ log.some.items[2].text = <<116, 101, 114, 114, 97, 110, 115, 32, 114, 111, 117, 110, 100, 32, 49>>
    /\ folded = << <<1, 1>>, <<2, 1>> >>
    /\ faction_stats.some[Terrans].vp = 15
    /\ faction_stats.some[Terrans].vp_lost_from_leech = -3
    /\ faction_stats.some[Terrans].vp_from_round_scoring = 2

-----------------------------------------------------------------------------
(* C5 *)

\* the change tokens of a <div> of the third cell
TokensOf(state_change) ==
    LET pieces == Split(RemoveChar(Strip(state_change), 44), 32)
    IN  {Strip(pieces[i]) : i \in {j \in 1..Len(pieces) : Strip(pieces[j]) # <<>>}}

NoDigit(token) == \A i \in 1..Len(token) : ~IsDigit(token[i])

\* a row of three cells one of whose change tokens has no decimal digit
Malformed(row) ==
    /\ row.ncols = 3
    /\ \E i \in 1..Len(row.state_changes) :
          \E token \in TokensOf(row.state_changes[i]) : NoDigit(token)

\* the lines of the report
ReportLines == {VPBreakdown[i] : i \in 1..Len(VPBreakdown)}
                   \cup {VPPercentages[i] : i \in 1..Len(VPPercentages)}
                   \cup {ResourcesBreakdown[i] : i \in 1..Len(ResourcesBreakdown)}

\* C5: with a change token without a decimal digit anywhere in the page, the
\* run ends while the log is built: no GameLog is returned, no FactionStats
\* is created and no line of the report is printed.
C5_MalformedTokenAborts ==
    (\E r \in 1..Len(html) : Malformed(html[r])) =>
        /\ pc \in {"main", "find", "parse", "exit"}
        /\ pc = "parse" => Len(items) < Len(log_rows)
        /\ pc = "exit" => exc \in {"SystemExit", "ValueError"}
        /\ IsNone(log)
        /\ IsNone(faction_stats)
        /\ folded = <<>>
        /\ \A i \in 1..Len(printed) : printed[i] \notin ReportLines

\* the token sits in the latest row, after a well-formed row was parsed
C5_Witness ==
    /\ pc = "exit"
    /\ exc = "SystemExit"
    /\ printed = <<LineWith("No quantity found in ", <<97, 98, 99>>)>>
    /\ Len(html) = 2
    /\ Malformed(html[1])
    /\ ~Malformed(html[2])
    /\ Len(items) = 1
    /\ IsNone(faction_stats)

-----------------------------------------------------------------------------
(* C6 *)

\* C6: folding a Loss of a resource other than VictoryPoint leaves every
\* counter of the participant as it was, under 'charge' as under any label.
C6_LossIgnored ==
    [][(Stepped /\ IsOther(DeltaFolded) /\ DeltaFolded.type = "LOSS") =>
          /\ fs' = fs
          /\ raised' = "none"]_vars

\* ("charge", [Loss Ore 5]) after a gain of 1 ore
C6_Witness ==
    /\ n = 2
    /\ ev.some = <<Charge, <<[type |-> "LOSS", resource |-> "ORE", quantity |-> 5]>>>>
    /\ raised = "none"
    /\ fs.ore = 1
    /\ fs.leech = 0
    /\ fs.vp = 10

-----------------------------------------------------------------------------
(* C7 *)

\* the resource a suffix of the vocabulary stands for
SuffixKind(suffix) ==
    CASE suffix = <<99>> -> "COIN"
      [] suffix = <<111>> -> "ORE"
      [] suffix = <<107>> -> "KNOWLEDGE"
      [] suffix = <<113>> -> "QIC"
      [] suffix = <<112, 119>> -> "POWER"
      [] suffix = <<116>> -> "PT"
      [] suffix = <<118, 112>> -> "VP"

\* the number a digit string writes, most significant digit first
RECURSIVE Decimal(_, _)
Decimal(ds, acc) ==
    IF ds = <<>> THEN acc ELSE Decimal(Tail(ds), 10 * acc + DigitVal(Head(ds)))

\* C7: from a token <sign?><digits><suffix> StateChange builds the type Loss
\* iff the sign is '-', the resource of the suffix and the quantity the digits
\* write; with digits and no suffix it builds a delta without resource, and
\* raises nothing.
C7_TokenRecovered ==
    (~IsNone(sc) /\ parts[2] # <<>> /\ parts[3] \in Suffixes \cup {<<>>}) =>
        /\ ~IsExc(sc)
        /\ sc.type = (IF parts[1] = <<45>> THEN "LOSS" ELSE "GAIN")
        /\ sc.quantity = Decimal(parts[2], 0)
        /\ IF parts[3] = <<>> THEN ~HasAttr(sc, "resource")
           ELSE HasAttr(sc, "resource") /\ sc.resource = SuffixKind(parts[3])

\* "-12pw"
C7_Witness ==
    /\ tok = <<45, 49, 50, 112, 119>>
    /\ sc = [type |-> "LOSS", resource |-> "POWER", quantity |-> 12]

-----------------------------------------------------------------------------
(* C8 *)

TrackNames == { <<116, 101, 114, 114, 97>>, <<110, 97, 118>>, <<105, 110, 116>>, <<103, 97, 105, 97>>, <<101, 99, 111>>, <<115, 99, 105>> }

\* the rules in their order: <<test, word, bucket>>
PriorityRules == <<
    <<"contains", <<114, 111, 117, 110, 100>>, "vp_from_round_scoring">>,
    <<"contains", <<98, 111, 111, 115, 116, 101, 114>>, "vp_from_boosters">>,
    <<"contains", <<102, 105, 110, 97, 108>>, "vp_from_endgame">>,
    <<"contains", <<116, 101, 99, 104>>, "vp_from_techs">>,
    <<"contains", <<97, 100, 118>>, "vp_from_adv_techs">>,
    <<"equals", <<102, 101, 100, 101, 114, 97, 116, 105, 111, 110>>, "vp_from_feds">>,
    <<"contains", <<113, 105, 99>>, "vp_from_qic_act">>,
    <<"track", <<>>, "vp_from_tracks">>,
    <<"equals", <<115, 112, 101, 110, 100>>, "vp_from_resources">>,
    <<"equals", <<99, 104, 97, 114, 103, 101>>, "vp_lost_from_leech">> >>

RuleMatches(rule, label) ==
    CASE rule[1] = "contains" -> Contains(rule[2], label)
      [] rule[1] = "equals" -> rule[2] = label
      [] rule[1] = "track" -> label \in TrackNames

\* the buckets of the first rule the label matches: one, or none
FirstMatch(label) ==
    LET m == {i \in 1..Len(PriorityRules) : RuleMatches(PriorityRules[i], label)}
    IN  IF m = {} THEN {} ELSE {PriorityRules[Min(m)][3]}

\* C8: a VictoryPoint delta changes the bucket of the first rule its label
\* matches and no other bucket, and no bucket when the label matches no rule.
C8_FirstMatchWins ==
    [][(Stepped /\ IsVP(DeltaFolded)) =>
          {b \in Buckets \cup {LeechBucket} : fs'[b] # fs[b]} = FirstMatch(LabelFolded)]_vars

\* the label 'adv tech' matches the rules of 'tech' and of 'adv'
C8_Witness ==
    /\ n = 1
    /\ ev.some[1] = <<97, 100, 118, 32, 116, 101, 99, 104>>
    /\ IsVP(ev.some[2][1])
    /\ fs.vp_from_techs = 5
    /\ fs.vp_from_adv_techs = 0

-----------------------------------------------------------------------------
(* C9 *)

GainOf(change, kind) ==
    IF IsOther(change) /\ change.type = "GAIN" /\ KindOf[change.resource] = kind
    THEN change.quantity ELSE 0

LeechGainOf(label, change) ==
    IF IsOther(change) /\ change.type = "GAIN" /\ label = Charge
    THEN change.quantity ELSE 0

\* C9: a Gain of N of a kind other than VictoryPoint raises the counter of
\* that kind by N and no other; it raises the leech-resource counter by N iff
\* the label equals 'charge'; no other change moves these counters. So each
\* counter is the sum of the gains of its kind, and leech the sum under 'charge'.
C9_GainsCounted ==
    [][Stepped =>
          /\ \A kind \in Kinds : fs'[kind] = fs[kind] + GainOf(DeltaFolded, kind)
          /\ fs'.leech = fs.leech + LeechGainOf(LabelFolded, DeltaFolded)]_vars

\* ("recharge", [Gain Power 5]) after ("charge", [Gain Power 1])
C9_Witness ==
    /\ n = 2
    /\ ev.some = << <<114, 101, 99, 104, 97, 114, 103, 101>>, <<[type |-> "GAIN", resource |-> "POWER", quantity |-> 5]>> >>
    /\ fs.power = 6
    /\ fs.leech = 1

-----------------------------------------------------------------------------
(* C10 *)

\* C10: the buckets take the quantity whatever the direction: no bucket but
\* the leech one ever falls or is negative, the leech one never rises or is
\* positive; a Loss VictoryPoint under a matching label raises its bucket (or
\* lowers the leech one) by its quantity and lowers the total by it.
C10_BucketsUnsigned ==
    /\ [](IsNone(fs) \/ (/\ \A b \in Buckets : fs[b] >= 0
                         /\ fs[LeechBucket] <= 0))
    /\ [][Stepped =>
            /\ \A b \in Buckets : fs'[b] >= fs[b]
            /\ fs'[LeechBucket] <= fs[LeechBucket]
            /\ (IsVP(DeltaFolded) /\ DeltaFolded.type = "LOSS") =>
                  /\ fs'.vp = fs.vp - DeltaFolded.quantity
                  /\ \A b \in FirstMatch(LabelFolded) :
                        fs'[b] = IF b = LeechBucket THEN fs[b] - DeltaFolded.quantity
                                 ELSE fs[b] + DeltaFolded.quantity]_vars

\* two losses of 5 under 'round': the total is 0 and the bucket is 10
C10_Witness ==
    /\ n = 2
    /\ ev.some = << <<114, 111, 117, 110, 100>>, <<[type |-> "LOSS", resource |-> "VP", quantity |-> 5]>> >>
    /\ fs.vp = 0
    /\ fs.vp_from_round_scoring = 10

====
